---- MODULE Spec2Model ----
(***************************************************************************)
(* Dualys::Plan: a plan is an id, an optional shared base plan and an      *)
(* ordered vector of layers.  The module models the Plan objects on the    *)
(* heap (src/Plan.h, src/Plan.cpp), the operations applyLayer, clone,      *)
(* getFileSystemState and merge, the value each call returns, and the     *)
(* ExecutionEngine with its WasmStrategy (src/ExecutionEngine.cpp).  A     *)
(* third specification runs getFileSystemState on reader threads while    *)
(* the caller's thread keeps calling the Plan operations.                  *)
(***************************************************************************)
EXTENDS Integers, Sequences, FiniteSets, TLC

\* ------------------------------------------------------------------ bounds
\* Plan objects ever constructed.
MaxPlans == 4
\* applyLayer calls made by the caller (merge's own appends are not counted).
MaxApply == 2
\* Plan objects constructed in the runs that also drive the engine.
MaxEnginePlans == 3
\* Plan objects constructed in the runs with reader threads.
MaxConcPlans == 3
\* Threads that materialize plans next to the caller's thread.
MaxReaders == 2

\* ------------------------------------------------------------------ values
\* nullptr, as a handle that names no Plan object (handles are 1, 2, ...).
NULL == 0

\* ChangeType (src/Layer.h).
ADDED == "ADDED"
MODIFIED == "MODIFIED"
REMOVED == "REMOVED"
PERMISSION_CHANGED == "PERMISSION_CHANGED"

\* A std::string is the sequence of its characters; NUL is the terminator
\* that data() points at when the string is empty.
NUL == "\\0"
EmptyString == <<>>
h1 == <<"h", "1">>
h2 == <<"h", "2">>
hx == <<"x">>
hy == <<"y">>

\* The paths the callers of the repository use as entry points.
PathApp == "/app/main.wasm"
PathRoot == "/main.wasm"
Paths == {PathApp, PathRoot}

\* std::string wasm_entry_point in WasmStrategy::execute.
wasm_entry_point == PathRoot

\* The strategies setStrategy is given: a WasmStrategy object that
\* std::make_unique<WasmStrategy>() builds (a handle, like a Plan's; every
\* call builds a new object, so there is a second one), or an empty
\* unique_ptr.
WasmStrategy == 1
Strategies == {WasmStrategy, WasmStrategy + 1, NULL}

\* Plan ids handed to the constructor, clone and merge, in the order the
\* callers use them: an id names one plan, so each call takes an unused one.
Ids == <<"web-server", "database", "web-server-test", "full-stack",
         "feature-A", "A+B">>

FileChange(path, type, hash) ==
    [path |-> path, type |-> type, new_content_hash |-> hash]

Layer(id, changes) == [id |-> id, changes |-> changes]

\* The layers a caller applies.
LayerPool ==
    { Layer("add", <<FileChange(PathApp, ADDED, h1)>>),
      Layer("mod", <<FileChange(PathApp, MODIFIED, h2)>>),
      Layer("rm", <<FileChange(PathApp, REMOVED, EmptyString)>>),
      Layer("perm", <<FileChange(PathApp, PERMISSION_CHANGED, EmptyString),
                      FileChange(PathRoot, ADDED, EmptyString)>>),
      Layer("xy", <<FileChange(PathRoot, ADDED, hx),
                    FileChange(PathRoot, MODIFIED, hy)>>) }

\* ------------------------------------------------------------------ state
VARIABLES
    m_id,          \* handle -> Plan::m_id
    m_base_plan,   \* handle -> Plan::m_base_plan (a handle, or NULL)
    m_layers,      \* handle -> Plan::m_layers
    weak_this,     \* handle -> TRUE when a shared_ptr owns the object
    napply,        \* applyLayer calls made so far
    ret,           \* the last call of a Plan operation and its outcome
    m_strategy,    \* ExecutionEngine::m_strategy (a strategy, or NULL)
    fs_state,      \* the mapping the last call materialized (empty if none)
    console,       \* what the last call wrote: "none", "success", "error"
    executed,      \* the strategies whose execute the last call invoked
    readers        \* thread -> the getFileSystemState call it is inside

vars == <<m_id, m_base_plan, m_layers, weak_this, napply, ret,
          m_strategy, fs_state, console, executed, readers>>

\* The Plan objects constructed so far.
Plans == DOMAIN m_id

\* A mutant of EmptyMap: a map that is born with an entry.
SeededMap == [q \in {PathRoot} |-> EmptyString]

\* std::map<std::string, std::string>, as a function on the keys it holds.
EmptyMap == [q \in {} |-> EmptyString]

\* The outcome of a call: its name, the handle it returned (NULL for nullptr
\* or for no handle) and the exception it threw.
Ret(op, res, thrown) == [op |-> op, res |-> res, thrown |-> thrown]

\* ------------------------------------------------------------------ std::map
\* A mutant of MapAssign: std::map::insert, which keeps an existing entry.
MapInsertOnly(m, path, value) ==
    [q \in DOMAIN m \cup {path} |-> IF q \in DOMAIN m THEN m[q] ELSE value]

\* A mutant of MapAssign: an existing entry is extended with the value
\* instead of being overwritten.
MapAssignAppend(m, path, value) ==
    [q \in DOMAIN m \cup {path} |->
        IF q # path THEN m[q]
        ELSE IF q \in DOMAIN m THEN m[q] \o value ELSE value]

\* currentState[path] = value: insert or overwrite.
MapAssign(m, path, value) ==
    [q \in DOMAIN m \cup {path} |-> IF q = path THEN value ELSE m[q]]

\* A mutant of MapErase: the entry is left in place.
MapEraseNothing(m, path) == m

\* currentState.erase(path).
MapErase(m, path) == [q \in DOMAIN m \ {path} |-> m[q]]

\* ------------------------------------------------------------------ std::string
\* new_content_hash.data() as a condition: std::string::data() never returns
\* a null pointer, whatever the string holds.
DataIsNonNull(s) == TRUE

\* *new_content_hash.data(): the first character, the terminator when empty.
DerefData(s) == IF Len(s) > 0 THEN s[1] ELSE NUL

\* std::string::operator=(char): the string of that one character.
StringFromChar(c) == <<c>>

\* ------------------------------------------------------------------ getFileSystemState
\* A mutant of ApplyChange: PERMISSION_CHANGED falls through to the erase.
ApplyChangePermissionErases(currentState, change) ==
    CASE change.type \in {ADDED, MODIFIED} ->
            MapAssign(currentState, change.path,
                      StringFromChar(DerefData(change.new_content_hash)))
      [] change.type \in {REMOVED, PERMISSION_CHANGED} ->
            MapErase(currentState, change.path)

\* One iteration of the inner loop: the switch on change.type.
ApplyChange(currentState, change) ==
    CASE change.type \in {ADDED, MODIFIED} ->
            IF DataIsNonNull(change.new_content_hash)
            THEN MapAssign(currentState, change.path,
                           StringFromChar(DerefData(change.new_content_hash)))
            ELSE currentState
      [] change.type = REMOVED -> MapErase(currentState, change.path)
      [] change.type = PERMISSION_CHANGED -> currentState

\* for (const auto& change : layer.changes)
RECURSIVE ApplyChanges(_, _)
ApplyChanges(currentState, changes) ==
    IF changes = <<>> THEN currentState
    ELSE ApplyChanges(ApplyChange(currentState, Head(changes)), Tail(changes))

\* A mutant of ApplyLayers: each layer replaces the mapping instead of
\* updating it, so only the last layer counts.
ApplyLayersLastOnly(currentState, layers) ==
    IF layers = <<>> THEN currentState
    ELSE ApplyChanges(EmptyMap, layers[Len(layers)].changes)

\* for (const auto& layer : m_layers)
RECURSIVE ApplyLayers(_, _)
ApplyLayers(currentState, layers) ==
    IF layers = <<>> THEN currentState
    ELSE ApplyLayers(ApplyChanges(currentState, Head(layers).changes),
                     Tail(layers))

\* A mutant of FileSystemState: the base's own layers only, without the
\* recursive call into the base's ancestry.
FileSystemStateOneLevel(base, layers, p) ==
    LET currentState == IF base[p] # NULL
                        THEN ApplyLayers(EmptyMap, layers[base[p]])
                        ELSE EmptyMap
    IN ApplyLayers(currentState, layers[p])

\* Plan::getFileSystemState on the heap (base, layers): the base's state
\* first (the recursive call), then the plan's own layers in order.
RECURSIVE FileSystemState(_, _, _)
FileSystemState(base, layers, p) ==
    LET currentState == IF base[p] # NULL
                        THEN FileSystemState(base, layers, base[p])
                        ELSE EmptyMap
    IN ApplyLayers(currentState, layers[p])

\* plan.getFileSystemState() in the current state.
getFileSystemState(p) == FileSystemState(m_base_plan, m_layers, p)

\* ------------------------------------------------------------------ operations
\* The object the constructor builds is placed at the next free handle.
NewHandle == Len(m_id) + 1

\* The id a caller gives the next plan it makes.
NewIds == {Ids[i] : i \in {NewHandle} \cap DOMAIN Ids}

\* A mutant of Construct: the base is also written into the plans that had
\* none.
ConstructRebasing(id, base, layers, owned) ==
    /\ m_id' = Append(m_id, id)
    /\ m_base_plan' = Append([h \in DOMAIN m_base_plan |->
                                 IF m_base_plan[h] = NULL /\ h # base
                                 THEN base ELSE m_base_plan[h]], base)
    /\ m_layers' = Append(m_layers, layers)
    /\ weak_this' = Append(weak_this, owned)

\* A mutant of Construct: a plan given a base becomes its own base.
ConstructSelfBased(id, base, layers, owned) ==
    /\ m_id' = Append(m_id, id)
    /\ m_base_plan' = Append(m_base_plan,
                             IF base = NULL THEN NULL ELSE Len(m_id) + 1)
    /\ m_layers' = Append(m_layers, layers)
    /\ weak_this' = Append(weak_this, owned)

\* Plan::Plan(id, base): the members after construction; owned says whether
\* a shared_ptr holds the new object (make_shared) or a unique_ptr does.
Construct(id, base, layers, owned) ==
    /\ m_id' = Append(m_id, id)
    /\ m_base_plan' = Append(m_base_plan, base)
    /\ m_layers' = Append(m_layers, layers)
    /\ weak_this' = Append(weak_this, owned)

\* std::make_shared<Plan>(id, nullptr): a root plan.
CreatePlan(id) ==
    /\ Len(m_id) < MaxPlans
    /\ Construct(id, NULL, <<>>, TRUE)
    /\ ret' = Ret("Plan", NewHandle, "none")
    /\ UNCHANGED napply

\* A mutant of PushBack: the layer is put in front of the others.
PushFront(layers, new_layer) == <<new_layer>> \o layers

\* m_layers.push_back(new_layer)
PushBack(layers, new_layer) == Append(layers, new_layer)

\* A mutant of ApplyLayer: the layer is pushed onto the base plan as well.
ApplyLayerWriteThrough(p, new_layer) ==
    /\ napply < MaxApply
    /\ m_layers' = [h \in DOMAIN m_layers |->
                       IF h = p \/ h = m_base_plan[p]
                       THEN Append(m_layers[h], new_layer)
                       ELSE m_layers[h]]
    /\ napply' = napply + 1
    /\ ret' = Ret("applyLayer", NULL, "none")
    /\ UNCHANGED <<m_id, m_base_plan, weak_this>>

\* A mutant of ApplyLayer: a plan built later on the same base from this
\* plan's layers shares their storage, so it receives the layer too.
ApplyLayerSharedStorage(p, new_layer) ==
    /\ napply < MaxApply
    /\ m_layers' = [h \in DOMAIN m_layers |->
                       IF h = p \/ (/\ h > p
                                    /\ m_base_plan[h] = m_base_plan[p]
                                    /\ m_layers[p] # <<>>
                                    /\ Len(m_layers[p]) <= Len(m_layers[h])
                                    /\ SubSeq(m_layers[h], 1, Len(m_layers[p]))
                                          = m_layers[p])
                       THEN Append(m_layers[h], new_layer)
                       ELSE m_layers[h]]
    /\ napply' = napply + 1
    /\ ret' = Ret("applyLayer", NULL, "none")
    /\ UNCHANGED <<m_id, m_base_plan, weak_this>>

\* Plan::applyLayer
ApplyLayer(p, new_layer) ==
    /\ napply < MaxApply
    /\ m_layers' = [m_layers EXCEPT ![p] = PushBack(@, new_layer)]
    /\ napply' = napply + 1
    /\ ret' = Ret("applyLayer", NULL, "none")
    /\ UNCHANGED <<m_id, m_base_plan, weak_this>>

\* A mutant of Clone: the base is taken from the raw this pointer, so the
\* call succeeds whoever owns the source.
CloneUnchecked(p, new_id) ==
    /\ Len(m_id) < MaxPlans
    /\ Construct(new_id, p, <<>>, FALSE)
    /\ ret' = Ret("clone", NewHandle, "none")
    /\ UNCHANGED napply

\* A mutant of Clone: the clone starts with a copy of the source's layers.
CloneCopiesLayers(p, new_id) ==
    IF weak_this[p]
    THEN /\ Len(m_id) < MaxPlans
         /\ Construct(new_id, p, m_layers[p], FALSE)
         /\ ret' = Ret("clone", NewHandle, "none")
         /\ UNCHANGED napply
    ELSE /\ ret' = Ret("clone", NULL, "bad_weak_ptr")
         /\ UNCHANGED <<m_id, m_base_plan, m_layers, weak_this, napply>>

\* Plan::clone: shared_from_this() throws std::bad_weak_ptr when no
\* shared_ptr owns *this; otherwise the new plan's base is *this.
Clone(p, new_id) ==
    IF weak_this[p]
    THEN /\ Len(m_id) < MaxPlans
         /\ Construct(new_id, p, <<>>, FALSE)
         /\ ret' = Ret("clone", NewHandle, "none")
         /\ UNCHANGED napply
    ELSE /\ ret' = Ret("clone", NULL, "bad_weak_ptr")
         /\ UNCHANGED <<m_id, m_base_plan, m_layers, weak_this, napply>>

\* The caller moves the unique_ptr<Plan> a call returned into a
\* shared_ptr<Plan>, which sets the object's weak_this; no Plan method runs.
Share(p) ==
    /\ ~weak_this[p]
    /\ weak_this' = [weak_this EXCEPT ![p] = TRUE]
    /\ UNCHANGED <<m_id, m_base_plan, m_layers, napply, ret>>

\* for (const auto& layer : plan.m_layers) merged_plan->applyLayer(layer);
RECURSIVE ApplyAll(_, _)
ApplyAll(merged, layers) ==
    IF layers = <<>> THEN merged
    ELSE ApplyAll(PushBack(merged, Head(layers)), Tail(layers))

\* A mutant of BasesDiffer: the bases are compared by the state they
\* materialize to, not by identity.
BasesDifferByState(planA, planB) ==
    (IF m_base_plan[planA] # NULL
     THEN getFileSystemState(m_base_plan[planA]) ELSE EmptyMap)
        # (IF m_base_plan[planB] # NULL
           THEN getFileSystemState(m_base_plan[planB]) ELSE EmptyMap)

\* A mutant of BasesDiffer: two plans without a base count as unrelated.
BasesDifferOrNone(planA, planB) ==
    m_base_plan[planA] # m_base_plan[planB] \/ m_base_plan[planA] = NULL

\* planA.m_base_plan != planB.m_base_plan
BasesDiffer(planA, planB) == m_base_plan[planA] # m_base_plan[planB]

\* A mutant of MergedLayers: planB's layers first, then planA's.
MergedLayersBFirst(planA, planB) ==
    ApplyAll(ApplyAll(<<>>, m_layers[planB]), m_layers[planA])

\* The layers of the plan merge builds: planA's, then planB's.
MergedLayers(planA, planB) ==
    ApplyAll(ApplyAll(<<>>, m_layers[planA]), m_layers[planB])

\* A mutant of Merge: planB's layers are moved into the merged plan, not
\* copied.
MergeMovingLayers(new_id, planA, planB) ==
    IF BasesDiffer(planA, planB)
    THEN /\ ret' = Ret("merge", NULL, "none")
         /\ UNCHANGED <<m_id, m_base_plan, m_layers, weak_this, napply>>
    ELSE /\ Len(m_id) < MaxPlans
         /\ m_id' = Append(m_id, new_id)
         /\ m_base_plan' = Append(m_base_plan, m_base_plan[planA])
         /\ m_layers' = Append([m_layers EXCEPT ![planB] = <<>>],
                               MergedLayers(planA, planB))
         /\ weak_this' = Append(weak_this, FALSE)
         /\ ret' = Ret("merge", NewHandle, "none")
         /\ UNCHANGED napply

\* Plan::merge
Merge(new_id, planA, planB) ==
    IF BasesDiffer(planA, planB)
    THEN /\ ret' = Ret("merge", NULL, "none")
         /\ UNCHANGED <<m_id, m_base_plan, m_layers, weak_this, napply>>
    ELSE /\ Len(m_id) < MaxPlans
         /\ Construct(new_id, m_base_plan[planA],
                      MergedLayers(planA, planB), FALSE)
         /\ ret' = Ret("merge", NewHandle, "none")
         /\ UNCHANGED napply

\* ------------------------------------------------------------------ ExecutionEngine
\* The members of the Plan objects: no engine call may write them.
PlanMembers == <<m_id, m_base_plan, m_layers, weak_this, napply>>

\* A mutant of GetFileSystemState: the layers are moved out of the plan
\* while they are read.
GetFileSystemStateConsuming(p) ==
    /\ fs_state' = getFileSystemState(p)
    /\ m_layers' = [m_layers EXCEPT ![p] = <<>>]
    /\ ret' = Ret("getFileSystemState", NULL, "none")
    /\ console' = "none"
    /\ executed' = <<>>
    /\ UNCHANGED <<m_id, m_base_plan, weak_this, napply, m_strategy>>

\* A call of Plan::getFileSystemState() const by the caller: the mapping
\* it returns; the method is const and writes no member.
GetFileSystemState(p) ==
    /\ fs_state' = getFileSystemState(p)
    /\ ret' = Ret("getFileSystemState", NULL, "none")
    /\ console' = "none"
    /\ executed' = <<>>
    /\ UNCHANGED <<PlanMembers, m_strategy>>

\* A mutant of SetStrategy: a strategy that is already set is kept.
SetStrategyKeepFirst(strategy) ==
    /\ m_strategy' = IF m_strategy = NULL THEN strategy ELSE m_strategy
    /\ ret' = Ret("setStrategy", NULL, "none")
    /\ fs_state' = EmptyMap
    /\ console' = "none"
    /\ executed' = <<>>
    /\ UNCHANGED PlanMembers

\* ExecutionEngine::setStrategy
SetStrategy(strategy) ==
    /\ m_strategy' = strategy
    /\ ret' = Ret("setStrategy", NULL, "none")
    /\ fs_state' = EmptyMap
    /\ console' = "none"
    /\ executed' = <<>>
    /\ UNCHANGED PlanMembers

\* A mutant of Execute: a missing entry point is thrown to the caller.
ExecuteThrowing(plan) ==
    /\ fs_state' = getFileSystemState(plan)
    /\ IF wasm_entry_point \in DOMAIN getFileSystemState(plan)
       THEN console' = "success" /\ ret' = Ret("run", NULL, "none")
       ELSE console' = "none" /\ ret' = Ret("run", NULL, "runtime_error")
    /\ executed' = <<m_strategy>>
    /\ UNCHANGED <<PlanMembers, m_strategy>>

\* m_strategy->execute(plan), WasmStrategy::execute: materializes the
\* plan, looks the entry point up (fs_state.count), runs it when found and
\* writes the error to std::cerr otherwise; it returns normally on both
\* branches.
Execute(plan) ==
    /\ fs_state' = getFileSystemState(plan)
    /\ console' = IF wasm_entry_point \in DOMAIN getFileSystemState(plan)
                  THEN "success" ELSE "error"
    /\ ret' = Ret("run", NULL, "none")
    /\ executed' = <<m_strategy>>
    /\ UNCHANGED <<PlanMembers, m_strategy>>

\* A mutant of Run: without a strategy the call returns without a word.
RunSilent(plan) ==
    IF m_strategy = NULL
    THEN /\ ret' = Ret("run", NULL, "none")
         /\ fs_state' = EmptyMap
         /\ console' = "none"
         /\ executed' = <<>>
         /\ UNCHANGED <<PlanMembers, m_strategy>>
    ELSE Execute(plan)

\* ExecutionEngine::run: throws std::runtime_error when no strategy is
\* set, delegates to the strategy's execute otherwise.
Run(plan) ==
    IF m_strategy = NULL
    THEN /\ ret' = Ret("run", NULL, "runtime_error")
         /\ fs_state' = EmptyMap
         /\ console' = "none"
         /\ executed' = <<>>
         /\ UNCHANGED <<PlanMembers, m_strategy>>
    ELSE Execute(plan)

\* ------------------------------------------------------------------ reader threads
Readers == 1 .. MaxReaders

\* A thread that is inside no call.
Idle == [plan |-> NULL, raced |-> FALSE, mutated |-> FALSE]

\* The plans whose m_layers a call of getFileSystemState on p reads: p and,
\* through the recursive call, the plans of its ancestry.
RECURSIVE PlansRead(_)
PlansRead(p) ==
    {p} \cup (IF m_base_plan[p] # NULL THEN PlansRead(m_base_plan[p]) ELSE {})

\* The values getFileSystemState ever stores, and every mapping over them:
\* what loops over a vector that is written meanwhile may come out with.
StoredValues == {StringFromChar(DerefData(h)) : h \in {EmptyString, h1}}
AnyState == UNION {[S -> StoredValues] : S \in SUBSET Paths}

\* A thread calls plan.getFileSystemState() on a plan that has a base.
BeginRead(r, p) ==
    /\ readers[r].plan = NULL
    /\ m_base_plan[p] # NULL
    /\ readers' = [readers EXCEPT ![r] =
                      [plan |-> p, raced |-> FALSE, mutated |-> FALSE]]
    /\ UNCHANGED <<PlanMembers, ret, m_strategy, fs_state, console, executed>>

\* The call returns: the mapping of Plan::getFileSystemState when no
\* push_back ran into its loops, anything otherwise (a data race: the
\* write and the reads are unordered accesses to the same vector).
EndRead(r) ==
    /\ readers[r].plan # NULL
    /\ fs_state' \in IF readers[r].raced THEN AnyState
                     ELSE {getFileSystemState(readers[r].plan)}
    /\ readers' = [readers EXCEPT ![r] = Idle]
    /\ ret' = Ret("getFileSystemState", NULL, "none")
    /\ console' = "none"
    /\ executed' = <<>>
    /\ UNCHANGED <<PlanMembers, m_strategy>>

\* applyLayer on p next to the readers: its push_back races with every
\* call under way that reads p's m_layers.
Interferes(p) ==
    readers' = [r \in Readers |->
                   IF readers[r].plan = NULL THEN readers[r]
                   ELSE [readers[r] EXCEPT
                            !.raced = @ \/ p \in PlansRead(readers[r].plan),
                            !.mutated = @ \/ p = readers[r].plan]]

\* ------------------------------------------------------------------ specification
Init ==
    /\ m_id = <<>>
    /\ m_base_plan = <<>>
    /\ m_layers = <<>>
    /\ weak_this = <<>>
    /\ napply = 0
    /\ ret = Ret("init", NULL, "none")
    /\ m_strategy = NULL
    /\ fs_state = EmptyMap
    /\ console = "none"
    /\ executed = <<>>
    /\ readers = [r \in Readers |-> Idle]

\* No Plan operation reaches the engine, materializes or writes anything.
EngineUntouched ==
    /\ m_strategy' = m_strategy
    /\ fs_state' = EmptyMap
    /\ console' = "none"
    /\ executed' = <<>>

\* A call of a Plan operation by the caller, on at most max plans.
PlanCall(max) ==
    \/ \E id \in NewIds :
          /\ CreatePlan(id) /\ Len(m_id') <= max /\ EngineUntouched
          /\ UNCHANGED readers
    \/ \E p \in Plans, layer \in LayerPool :
          ApplyLayer(p, layer) /\ EngineUntouched /\ Interferes(p)
    \/ \E p \in Plans, id \in NewIds :
          /\ Clone(p, id) /\ Len(m_id') <= max /\ EngineUntouched
          /\ UNCHANGED readers
    \/ \E p \in Plans :
          Share(p) /\ EngineUntouched /\ UNCHANGED readers
    \/ \E a \in Plans, b \in Plans, id \in NewIds :
          /\ Merge(id, a, b) /\ Len(m_id') <= max /\ EngineUntouched
          /\ UNCHANGED readers

\* The Plan operations alone.
Next == PlanCall(MaxPlans)

Spec == Init /\ [][Next]_vars

\* A call of the engine, or a materialization, by the caller.
EngineCall ==
    \/ \E strategy \in Strategies :
          SetStrategy(strategy) /\ UNCHANGED readers
    \/ \E p \in Plans : Run(p) /\ UNCHANGED readers
    \/ \E p \in Plans : GetFileSystemState(p) /\ UNCHANGED readers

\* Every operation of the program, on at most MaxEnginePlans plans.
EngineNext ==
    \/ PlanCall(MaxEnginePlans)
    \/ EngineCall

EngineSpec == Init /\ [][EngineNext]_vars

\* A step of a reader thread.
ReaderStep ==
    \/ \E r \in Readers, p \in Plans : BeginRead(r, p)
    \/ \E r \in Readers : EndRead(r)

\* The Plan operations on the caller's thread, interleaved with the
\* reader threads, on at most MaxConcPlans plans.
ConcNext ==
    \/ PlanCall(MaxConcPlans)
    \/ ReaderStep

ConcSpec == Init /\ [][ConcNext]_vars

\* ------------------------------------------------------------------ vocabulary of the claims
\* The heap members of every plan.
heap == <<m_id, m_base_plan, m_layers, weak_this>>

\* getFileSystemState of p in the state a step leads to.
getFileSystemStateNext(p) == FileSystemState(m_base_plan', m_layers', p)

\* The state a plan starts from: its base's, or the empty mapping.
BaseState(p) ==
    IF m_base_plan[p] # NULL THEN getFileSystemState(m_base_plan[p])
    ELSE EmptyMap

\* The change records of a layer sequence, in application order.
RECURSIVE LayerChanges(_)
LayerChanges(layers) ==
    IF layers = <<>> THEN <<>>
    ELSE Head(layers).changes \o LayerChanges(Tail(layers))

\* The change records of a plan's whole ancestry, root first.
RECURSIVE ChainChanges(_)
ChainChanges(p) ==
    (IF m_base_plan[p] # NULL THEN ChainChanges(m_base_plan[p]) ELSE <<>>)
        \o LayerChanges(m_layers[p])

\* The number of ancestors of a plan.
RECURSIVE Depth(_)
Depth(p) == IF m_base_plan[p] = NULL THEN 0 ELSE 1 + Depth(m_base_plan[p])

\* The index of the last record of cs on path q (0 when there is none).
LastOn(cs, q) ==
    LET on == {i \in DOMAIN cs : cs[i].path = q}
    IN IF on = {} THEN 0 ELSE CHOOSE i \in on : \A j \in on : j <= i

\* Two mappings agree on path q: the same identifier, or absent in both.
AgreeOn(m1, m2, q) ==
    /\ (q \in DOMAIN m1) = (q \in DOMAIN m2)
    /\ q \in DOMAIN m1 => m1[q] = m2[q]

\* Some record of kind in kinds in p's own layers is on path q.
Touches(p, q, kinds) ==
    \E i \in DOMAIN LayerChanges(m_layers[p]) :
        /\ LayerChanges(m_layers[p])[i].path = q
        /\ LayerChanges(m_layers[p])[i].type \in kinds

AllKinds == {ADDED, MODIFIED, REMOVED, PERMISSION_CHANGED}

\* The mapping built by the first i records of cs.
StateAfter(cs, i) == ApplyChanges(EmptyMap, SubSeq(cs, 1, i))

\* The content identifiers a record may carry.
Hashes == {EmptyString, h1, h2, hx, hy}

\* A plan and its ancestors.
RECURSIVE Ancestry(_)
Ancestry(p) ==
    {p} \cup (IF m_base_plan[p] # NULL THEN Ancestry(m_base_plan[p]) ELSE {})

\* The mappings getFileSystemState(p) returns when it runs alone, before
\* or after any applyLayer made so far: layers are only appended, so each
\* plan of the ancestry had a prefix of the layers it has now.
RECURSIVE AloneStates(_)
AloneStates(p) ==
    {ApplyLayers(s, SubSeq(m_layers[p], 1, k)) :
        s \in (IF m_base_plan[p] # NULL THEN AloneStates(m_base_plan[p])
               ELSE {EmptyMap}),
        k \in 0 .. Len(m_layers[p])}

\* The plans whose loops a call of getFileSystemState on p runs, in the
\* order it runs them: the recursive call first, then p's own.
RECURSIVE VisitOrder(_)
VisitOrder(p) ==
    (IF m_base_plan[p] # NULL THEN VisitOrder(m_base_plan[p]) ELSE <<>>)
        \o <<p>>

\* The layers, and the change records, of the plans of a sequence.
RECURSIVE LayersOf(_)
LayersOf(ps) ==
    IF ps = <<>> THEN 0 ELSE Len(m_layers[Head(ps)]) + LayersOf(Tail(ps))

RECURSIVE RecordsOf(_)
RecordsOf(ps) ==
    IF ps = <<>> THEN 0
    ELSE Len(LayerChanges(m_layers[Head(ps)])) + RecordsOf(Tail(ps))

\* s is a prefix of t.
IsPrefix(s, t) == Len(s) <= Len(t) /\ SubSeq(t, 1, Len(s)) = s

\* ------------------------------------------------------------------ C1
\* C1 (as claimed): once b has a as its base (b = a.clone(id)), an applyLayer
\* on the source a leaves getFileSystemState(b) as it was.
C1_SourceMutationLeavesClone ==
    [][\A a \in Plans, b \in Plans :
          (m_base_plan[b] = a /\ m_layers'[a] # m_layers[a])
              => getFileSystemStateNext(b) = getFileSystemState(b)]_vars

\* ------------------------------------------------------------------ C2
\* C2: once b has a as its base, an applyLayer on the clone b leaves a's
\* layer sequence and getFileSystemState(a) as they were.
C2_CloneMutationLeavesSource ==
    [][\A a \in Plans, b \in Plans :
          (m_base_plan[b] = a /\ m_layers'[b] # m_layers[b])
              => /\ m_layers'[a] = m_layers[a]
                 /\ getFileSystemStateNext(a) = getFileSystemState(a)]_vars

\* A clone with layers of its own over a source with layers, the two
\* materializing differently, right after an applyLayer.
C2_Witness ==
    /\ ret.op = "applyLayer"
    /\ \E b \in Plans :
          /\ m_base_plan[b] # NULL
          /\ m_layers[b] # <<>>
          /\ m_layers[m_base_plan[b]] # <<>>
          /\ getFileSystemState(b) # getFileSystemState(m_base_plan[b])

\* ------------------------------------------------------------------ C3
\* C3 (as claimed): when the last record on a path q in a plan's ancestry is
\* Added or Modified with identifier h, the materialized mapping holds q
\* with exactly h, the whole identifier.
C3_WholeIdentifierStored ==
    \A p \in Plans, q \in Paths :
        LET cs == ChainChanges(p)
            i == LastOn(cs, q)
        IN (i > 0 /\ cs[i].type \in {ADDED, MODIFIED}
                  /\ cs[i].new_content_hash # EmptyString)
               => /\ q \in DOMAIN getFileSystemState(p)
                  /\ getFileSystemState(p)[q] = cs[i].new_content_hash

\* ------------------------------------------------------------------ C4
\* C4: getFileSystemState(p) is the base's state (empty without a base) with
\* p's own records applied in order, and so the records of the whole
\* ancestry applied to the empty mapping root first, at every depth.
C4_AncestorsFirst ==
    \A p \in Plans :
        /\ getFileSystemState(p)
              = ApplyChanges(BaseState(p), LayerChanges(m_layers[p]))
        /\ getFileSystemState(p) = ApplyChanges(EmptyMap, ChainChanges(p))

\* A plan two clones deep whose root and itself both carry layers, the
\* order of which decides the mapping.
C4_Witness ==
    \E p \in Plans :
        /\ Depth(p) >= 2
        /\ m_layers[p] # <<>>
        /\ \E a \in Plans : Depth(a) = 0 /\ m_layers[a] # <<>>
                            /\ m_base_plan[m_base_plan[p]] = a
        /\ getFileSystemState(p)
              # ApplyChanges(ApplyChanges(EmptyMap, LayerChanges(m_layers[p])),
                             ChainChanges(m_base_plan[p]))

\* ------------------------------------------------------------------ C5
\* C5: a merge of two plans whose bases are not the same reference returns
\* nullptr, throws nothing, constructs no Plan and changes no plan.
C5_MergeRejected ==
    [][\A a \in Plans, b \in Plans, id \in NewIds :
          (ret'.op = "merge" /\ m_base_plan[a] # m_base_plan[b]
                             /\ Merge(id, a, b))
              => /\ ret'.res = NULL
                 /\ ret'.thrown = "none"
                 /\ UNCHANGED heap]_vars

\* Two independent roots, a clone of each, and a merge that has just
\* returned nullptr.
C5_Witness ==
    /\ ret.op = "merge"
    /\ ret.res = NULL
    /\ \E r1 \in Plans, r2 \in Plans, a \in Plans, b \in Plans :
          /\ r1 # r2
          /\ m_base_plan[r1] = NULL /\ m_base_plan[r2] = NULL
          /\ m_base_plan[a] = r1 /\ m_base_plan[b] = r2

\* ------------------------------------------------------------------ C6
\* C6: a merge of two plans with the same base constructs one plan, with
\* the id given, that base, planA's layers followed by planB's, and the
\* state of the base with planA's layers, then planB's, applied.
C6_MergeBuilds ==
    [][\A a \in Plans, b \in Plans, id \in NewIds :
          (ret'.op = "merge" /\ m_base_plan[a] = m_base_plan[b]
                             /\ Merge(id, a, b))
              => /\ ret'.res = Len(m_id) + 1
                 /\ Len(m_id') = Len(m_id) + 1
                 /\ m_id'[ret'.res] = id
                 /\ m_base_plan'[ret'.res] = m_base_plan[a]
                 /\ m_layers'[ret'.res] = m_layers[a] \o m_layers[b]
                 /\ getFileSystemStateNext(ret'.res)
                       = ApplyLayers(ApplyLayers(BaseState(a), m_layers[a]),
                                     m_layers[b])]_vars

\* A merge has just built a plan from two different siblings of a common
\* base plan, each with a layer of its own.
C6_Witness ==
    /\ ret.op = "merge"
    /\ ret.res # NULL
    /\ \E a \in Plans, b \in Plans :
          /\ a # b /\ a # ret.res /\ b # ret.res
          /\ m_base_plan[a] # NULL
          /\ m_base_plan[a] = m_base_plan[b]
          /\ m_base_plan[ret.res] = m_base_plan[a]
          /\ m_layers[a] # <<>> /\ m_layers[b] # <<>>
          /\ m_layers[a] # m_layers[b]
          /\ m_layers[ret.res] = m_layers[a] \o m_layers[b]

\* ------------------------------------------------------------------ C7
\* C7 (as claimed): after a merge, on every path touched by a record of any
\* kind in planA's layers and by one in planB's, the merged plan's mapping
\* agrees with planB's.
C7_TouchedByBoth ==
    [][\A a \in Plans, b \in Plans, id \in NewIds :
          (ret'.op = "merge" /\ m_base_plan[a] = m_base_plan[b]
                             /\ Merge(id, a, b))
              => \A q \in Paths :
                    (Touches(a, q, AllKinds) /\ Touches(b, q, AllKinds))
                        => AgreeOn(getFileSystemStateNext(ret'.res),
                                   getFileSystemState(b), q)]_vars

\* C7 (amended): the same, on every path touched by a record in planA's
\* layers and by an Added, Modified or Removed record in planB's.
C7_WrittenByB ==
    [][\A a \in Plans, b \in Plans, id \in NewIds :
          (ret'.op = "merge" /\ m_base_plan[a] = m_base_plan[b]
                             /\ Merge(id, a, b))
              => \A q \in Paths :
                    (Touches(a, q, AllKinds)
                        /\ Touches(b, q, {ADDED, MODIFIED, REMOVED}))
                        => AgreeOn(getFileSystemStateNext(ret'.res),
                                   getFileSystemState(b), q)]_vars

\* A merge has just built a plan from two siblings that write the same path
\* and materialize it differently.
C7_Witness ==
    /\ ret.op = "merge"
    /\ ret.res # NULL
    /\ \E a \in Plans, b \in Plans, q \in Paths :
          /\ a # b /\ a # ret.res /\ b # ret.res
          /\ m_base_plan[a] = m_base_plan[b]
          /\ m_base_plan[ret.res] = m_base_plan[a]
          /\ m_layers[ret.res] = m_layers[a] \o m_layers[b]
          /\ Touches(a, q, {ADDED, MODIFIED, REMOVED})
          /\ Touches(b, q, {ADDED, MODIFIED, REMOVED})
          /\ ~AgreeOn(getFileSystemState(a), getFileSystemState(b), q)

\* ------------------------------------------------------------------ C8
\* C8: a clone of a plan held by a shared_ptr constructs one plan with the
\* id given, the source as its base, no layer and the source's state, and
\* leaves every plan that existed as it was.
C8_CloneBuilds ==
    [][\A p \in Plans, id \in NewIds :
          (ret'.op = "clone" /\ weak_this[p] /\ Clone(p, id))
              => /\ ret'.res = Len(m_id) + 1
                 /\ Len(m_id') = Len(m_id) + 1
                 /\ m_id'[ret'.res] = id
                 /\ m_base_plan'[ret'.res] = p
                 /\ m_layers'[ret'.res] = <<>>
                 /\ getFileSystemStateNext(ret'.res) = getFileSystemState(p)
                 /\ \A o \in Plans :
                       /\ m_id'[o] = m_id[o]
                       /\ m_base_plan'[o] = m_base_plan[o]
                       /\ m_layers'[o] = m_layers[o]]_vars

\* A clone has just been made of a plan that has layers and a non-empty
\* state.
C8_Witness ==
    /\ ret.op = "clone"
    /\ ret.res # NULL
    /\ m_layers[m_base_plan[ret.res]] # <<>>
    /\ getFileSystemState(ret.res) # EmptyMap

\* ------------------------------------------------------------------ C9
\* C9 (as claimed): when a path q has an earlier and a later Added or
\* Modified record in a plan's ancestry, with different identifiers, and the
\* later one is the last on q, the mapping holds q with the later record's
\* identifier.
C9_LaterRecordWins ==
    \A p \in Plans, q \in Paths :
        LET cs == ChainChanges(p)
            j == LastOn(cs, q)
        IN (/\ j > 0
            /\ cs[j].type \in {ADDED, MODIFIED}
            /\ cs[j].new_content_hash # EmptyString
            /\ \E i \in 1..(j - 1) :
                  /\ cs[i].path = q
                  /\ cs[i].type \in {ADDED, MODIFIED}
                  /\ cs[i].new_content_hash # EmptyString
                  /\ cs[i].new_content_hash # cs[j].new_content_hash)
               => /\ q \in DOMAIN getFileSystemState(p)
                  /\ getFileSystemState(p)[q] = cs[j].new_content_hash

\* ------------------------------------------------------------------ C10
\* C10 (as claimed): an Added or Modified record with an empty identifier
\* leaves the mapping built by the records before it exactly as it was.
C10_EmptyIdentifierNoOp ==
    \A p \in Plans :
        LET cs == ChainChanges(p)
        IN \A i \in DOMAIN cs :
              (cs[i].type \in {ADDED, MODIFIED}
                  /\ cs[i].new_content_hash = EmptyString)
                  => ApplyChanges(EmptyMap, SubSeq(cs, 1, i))
                        = ApplyChanges(EmptyMap, SubSeq(cs, 1, i - 1))

\* ------------------------------------------------------------------ C11
\* C11: a Removed record in a plan's ancestry erases its path and nothing
\* else; it leaves the mapping as it was when the path is absent; whatever
\* identifier it carries gives the same mapping; and applying the record a
\* second time changes nothing more.
C11_RemovedErases ==
    \A p \in Plans :
        LET cs == ChainChanges(p)
        IN \A i \in DOMAIN cs :
              cs[i].type = REMOVED
                  => LET before == StateAfter(cs, i - 1)
                         after == StateAfter(cs, i)
                     IN /\ DOMAIN after = DOMAIN before \ {cs[i].path}
                        /\ \A k \in DOMAIN after : after[k] = before[k]
                        /\ cs[i].path \notin DOMAIN before => after = before
                        /\ \A h \in Hashes :
                              ApplyChange(before,
                                  FileChange(cs[i].path, REMOVED, h)) = after
                        /\ ApplyChange(after, cs[i]) = after

\* A plan in whose ancestry a Removed record erases a path that was
\* present, another entry staying, and a plan where one meets an absent path.
C11_Witness ==
    /\ \E p \in Plans :
          \E i \in DOMAIN ChainChanges(p) :
              /\ ChainChanges(p)[i].type = REMOVED
              /\ ChainChanges(p)[i].path
                    \in DOMAIN StateAfter(ChainChanges(p), i - 1)
    /\ \E p \in Plans :
          \E i \in DOMAIN ChainChanges(p) :
              /\ ChainChanges(p)[i].type = REMOVED
              /\ ChainChanges(p)[i].path
                    \notin DOMAIN StateAfter(ChainChanges(p), i - 1)

\* ------------------------------------------------------------------ C12
\* C12: a plan without a base and without layers materializes to the
\* mapping that holds no path, whatever its id.
C12_RootIsEmpty ==
    \A p \in Plans :
        (m_base_plan[p] = NULL /\ m_layers[p] = <<>>)
            => DOMAIN getFileSystemState(p) = {}

\* Two roots without layers and with different ids, next to a plan whose
\* mapping is not empty.
C12_Witness ==
    /\ \E p \in Plans, o \in Plans :
          /\ m_id[p] # m_id[o]
          /\ m_base_plan[p] = NULL /\ m_layers[p] = <<>>
          /\ m_base_plan[o] = NULL /\ m_layers[o] = <<>>
    /\ \E p \in Plans : DOMAIN getFileSystemState(p) # {}

\* ------------------------------------------------------------------ C13
\* C13: a PermissionChanged record in a plan's ancestry leaves the mapping
\* built by the records before it as it was, and one applied to the mapping
\* of any plan, on any path and with any identifier, returns that mapping.
C13_PermissionChangedNoOp ==
    \A p \in Plans :
        LET cs == ChainChanges(p)
            m == getFileSystemState(p)
        IN /\ \A i \in DOMAIN cs :
                 cs[i].type = PERMISSION_CHANGED
                     => StateAfter(cs, i) = StateAfter(cs, i - 1)
           /\ \A q \in Paths, h \in Hashes :
                 ApplyChange(m, FileChange(q, PERMISSION_CHANGED, h)) = m

\* A plan in whose ancestry a PermissionChanged record meets a path that
\* is present.
C13_Witness ==
    \E p \in Plans :
        \E i \in DOMAIN ChainChanges(p) :
            /\ ChainChanges(p)[i].type = PERMISSION_CHANGED
            /\ ChainChanges(p)[i].path
                  \in DOMAIN StateAfter(ChainChanges(p), i - 1)

\* ------------------------------------------------------------------ C14
\* C14: whatever the operation (applyLayer, clone, merge, setStrategy, a
\* materialization, run), the layer sequence a plan had before it is a
\* prefix of the one it has after it.
C14_LayersAppendOnly ==
    [][\A p \in Plans : IsPrefix(m_layers[p], m_layers'[p])]_vars

\* A plan that has grown to two different layers has been merged with
\* itself and run.
C14_Witness ==
    /\ ret.op = "run"
    /\ \E p \in Plans, o \in Plans :
          /\ Len(m_layers[p]) = 2
          /\ m_layers[p][1] # m_layers[p][2]
          /\ Len(m_layers[o]) = 4

\* ------------------------------------------------------------------ C15
\* C15: whatever the operation, every plan has after it the base it had
\* before it, which is the one its constructor was given.
C15_BaseFixed ==
    [][/\ \A p \in Plans : m_base_plan'[p] = m_base_plan[p]
       /\ \A p \in Plans, id \in NewIds :
             (ret'.op = "clone" /\ weak_this[p] /\ Clone(p, id))
                 => m_base_plan'[NewHandle] = p]_vars

\* A root, a clone of it that has a layer, and the engine has run.
C15_Witness ==
    /\ ret.op = "run"
    /\ \E p \in Plans :
          /\ m_base_plan[p] # NULL
          /\ m_base_plan[m_base_plan[p]] = NULL
          /\ m_layers[p] # <<>>

\* ------------------------------------------------------------------ C16
\* C16: applyLayer(layer) on p makes p's layer sequence the old one with
\* layer appended, and leaves every id, every base and the layer sequence
\* of every other plan as they were.
C16_ApplyLayerFrame ==
    [][\A p \in Plans, layer \in LayerPool :
          (ret'.op = "applyLayer" /\ ApplyLayer(p, layer))
              => /\ m_layers'[p] = Append(m_layers[p], layer)
                 /\ m_id' = m_id
                 /\ m_base_plan' = m_base_plan
                 /\ \A o \in Plans \ {p} : m_layers'[o] = m_layers[o]]_vars

\* An applyLayer has just given a second layer to a plan that has a base.
C16_Witness ==
    /\ ret.op = "applyLayer"
    /\ \E p \in Plans :
          /\ m_base_plan[p] # NULL
          /\ Len(m_layers[p]) = 2
          /\ m_layers[p][1] # m_layers[p][2]

\* ------------------------------------------------------------------ C17
\* C17: a step that changes no layer sequence in a plan's ancestry leaves
\* the mapping the plan materializes to as it was; and a materialization
\* returns that mapping, the one a second materialization would return,
\* and leaves every id, base and layer sequence as they were.
C17_MaterializationPure ==
    [][/\ \A p \in Plans :
             (\A a \in Ancestry(p) : m_layers'[a] = m_layers[a])
                 => getFileSystemStateNext(p) = getFileSystemState(p)
       /\ \A p \in Plans :
             (ret'.op = "getFileSystemState" /\ GetFileSystemState(p))
                 => /\ fs_state' = getFileSystemState(p)
                    /\ fs_state' = getFileSystemStateNext(p)
                    /\ m_id' = m_id
                    /\ m_base_plan' = m_base_plan
                    /\ m_layers' = m_layers]_vars

\* A materialization has just returned the non-empty mapping of a plan
\* that has layers of its own over a base with layers.
C17_Witness ==
    /\ ret.op = "getFileSystemState"
    /\ fs_state # EmptyMap
    /\ \E p \in Plans :
          /\ m_base_plan[p] # NULL
          /\ m_layers[p] # <<>>
          /\ m_layers[m_base_plan[p]] # <<>>
          /\ fs_state = getFileSystemState(p)

\* ------------------------------------------------------------------ C18
\* C18: run while m_strategy is empty throws std::runtime_error to the
\* caller, executes nothing (no materialization, nothing written) and
\* leaves the plans and the engine as they were.
C18_RunWithoutStrategy ==
    [][\A p \in Plans :
          (ret'.op = "run" /\ m_strategy = NULL /\ Run(p))
              => /\ ret'.thrown = "runtime_error"
                 /\ console' = "none"
                 /\ fs_state' = EmptyMap
                 /\ UNCHANGED <<heap, m_strategy>>]_vars

\* A run has just thrown although a plan holds the entry point.
C18_Witness ==
    /\ ret.op = "run"
    /\ ret.thrown = "runtime_error"
    /\ m_strategy = NULL
    /\ \E p \in Plans : wasm_entry_point \in DOMAIN getFileSystemState(p)

\* ------------------------------------------------------------------ C19
\* C19: run with a strategy set, on a plan whose mapping does not hold
\* wasm_entry_point, writes the error, does not execute, returns without
\* an exception and leaves the plans and the engine as they were.
C19_MissingEntryPoint ==
    [][\A p \in Plans :
          (/\ ret'.op = "run"
           /\ m_strategy # NULL
           /\ wasm_entry_point \notin DOMAIN getFileSystemState(p)
           /\ Run(p))
              => /\ console' = "error"
                 /\ ret'.thrown = "none"
                 /\ UNCHANGED <<heap, m_strategy>>]_vars

\* A run has just reported the error for a plan whose mapping is not
\* empty, while another plan holds the entry point.
C19_Witness ==
    /\ ret.op = "run"
    /\ console = "error"
    /\ fs_state # EmptyMap
    /\ wasm_entry_point \notin DOMAIN fs_state
    /\ \E p \in Plans : wasm_entry_point \in DOMAIN getFileSystemState(p)

\* ------------------------------------------------------------------ C20
\* C20: clone on a plan that no shared_ptr owns throws (std::bad_weak_ptr),
\* returns no plan, constructs none and leaves every plan as it was.
C20_CloneUnshared ==
    [][\A p \in Plans, id \in NewIds :
          (ret'.op = "clone" /\ ~weak_this[p] /\ Clone(p, id))
              => /\ ret'.thrown = "bad_weak_ptr"
                 /\ ret'.res = NULL
                 /\ UNCHANGED heap]_vars

\* A clone has just thrown on a plan that came out of a clone and has a
\* layer.
C20_Witness ==
    /\ ret.op = "clone"
    /\ ret.thrown = "bad_weak_ptr"
    /\ \E p \in Plans :
          /\ ~weak_this[p]
          /\ m_base_plan[p] # NULL
          /\ m_layers[p] # <<>>

\* ------------------------------------------------------------------ C21
\* C21 (as claimed): when two threads materialize two siblings (plans with
\* the same base) at the same time and neither sibling receives a layer
\* meanwhile, the call that returns hands back a mapping the plan has when
\* materialized alone, whatever the caller's thread does in between.
C21_SiblingReadsSafe ==
    [][\A r \in Readers, o \in Readers :
          (/\ ret'.op = "getFileSystemState"
           /\ readers[r].plan # NULL
           /\ readers'[r].plan = NULL
           /\ readers[o].plan # NULL
           /\ readers[o].plan # readers[r].plan
           /\ m_base_plan[readers[o].plan] = m_base_plan[readers[r].plan]
           /\ ~readers[r].mutated
           /\ ~readers[o].mutated)
              => fs_state' \in AloneStates(readers[r].plan)]_vars

\* ------------------------------------------------------------------ C22
\* C22: a merge, accepted or rejected, leaves the id, the base and the
\* layer sequence of every existing plan (planA, planB and their base
\* among them) as they were and hands back no mapping; it is accepted
\* exactly when the two bases are the same reference, and the plan it
\* builds has all of planA's layers, then all of planB's, whatever paths
\* they are on.
C22_MergeLeavesInputs ==
    [][\A a \in Plans, b \in Plans, id \in NewIds :
          (ret'.op = "merge" /\ Merge(id, a, b))
              => /\ \A o \in Plans :
                       /\ m_id'[o] = m_id[o]
                       /\ m_base_plan'[o] = m_base_plan[o]
                       /\ m_layers'[o] = m_layers[o]
                 /\ fs_state' = EmptyMap
                 /\ (ret'.res # NULL) = (m_base_plan[a] = m_base_plan[b])
                 /\ ret'.res # NULL
                       => m_layers'[ret'.res] = m_layers[a] \o m_layers[b]]_vars

\* A merge has just built a plan from two clones of one root, each with a
\* layer of its own, the two layers on the same path.
C22_Witness ==
    /\ ret.op = "merge"
    /\ ret.res # NULL
    /\ \E a \in Plans, b \in Plans, q \in Paths :
          /\ a # b /\ a # ret.res /\ b # ret.res
          /\ m_base_plan[a] # NULL
          /\ m_base_plan[b] = m_base_plan[a]
          /\ m_layers[a] # <<>>
          /\ m_layers[b] # <<>>
          /\ Touches(a, q, AllKinds)
          /\ Touches(b, q, AllKinds)
          /\ Len(m_layers[ret.res]) = Len(m_layers[a]) + Len(m_layers[b])

\* ------------------------------------------------------------------ C23
\* C23: setStrategy(s) leaves s, and only s, in the engine, whatever was
\* set before; no other operation changes the engine's strategy; and a run
\* with a strategy set invokes execute once, on that strategy, and leaves
\* it set.
C23_OneActiveStrategy ==
    [][/\ \A s \in Strategies :
             (ret'.op = "setStrategy" /\ SetStrategy(s))
                 => m_strategy' = s /\ executed' = <<>>
       /\ m_strategy' # m_strategy => ret'.op = "setStrategy"
       /\ \A p \in Plans :
             (ret'.op = "run" /\ m_strategy # NULL /\ Run(p))
                 => /\ executed' = <<m_strategy>>
                    /\ m_strategy' = m_strategy]_vars

\* A run has just executed a plan, successfully, on the second strategy
\* object.
C23_Witness ==
    /\ ret.op = "run"
    /\ console = "success"
    /\ m_strategy = WasmStrategy + 1
    /\ executed = <<WasmStrategy + 1>>

\* ------------------------------------------------------------------ C24
\* C24 (as claimed): a run, with a strategy set, of a plan whose mapping
\* holds "/app/main.wasm" finds the entry point and completes.
C24_AppWasmRuns ==
    [][\A p \in Plans :
          (/\ ret'.op = "run"
           /\ m_strategy # NULL
           /\ PathApp \in DOMAIN getFileSystemState(p)
           /\ Run(p))
              => console' = "success"]_vars

\* ------------------------------------------------------------------ C25
\* C25: every base is a plan constructed before the plan that has it, so
\* no plan is among its own ancestors; and a materialization runs the loops
\* of each plan of the ancestry once, going through as many change records
\* as the layers of these plans hold.
C25_AncestryAcyclic ==
    /\ \A p \in Plans :
          m_base_plan[p] = NULL
              \/ (m_base_plan[p] \in Plans /\ m_base_plan[p] < p)
    /\ \A p \in Plans :
          LET visited == VisitOrder(p)
          IN /\ m_base_plan[p] # NULL => p \notin Ancestry(m_base_plan[p])
             /\ \A i \in DOMAIN visited, j \in DOMAIN visited :
                   visited[i] = visited[j] => i = j
             /\ {visited[i] : i \in DOMAIN visited} = Ancestry(p)
             /\ Len(visited) <= Cardinality(Plans)
             /\ Len(ChainChanges(p)) = RecordsOf(visited)

\* A plan with two ancestors, with layers (one of two records) along the
\* chain.
C25_Witness ==
    \E p \in Plans :
        /\ Depth(p) = 2
        /\ LayersOf(VisitOrder(p)) = 2
        /\ RecordsOf(VisitOrder(p)) = 3

\* ------------------------------------------------------------------ C26
\* C26: a merge of two plans that both have no base is accepted, and the
\* plan it builds has no base and planA's layers followed by planB's.
C26_RootsMerge ==
    [][\A a \in Plans, b \in Plans, id \in NewIds :
          (ret'.op = "merge" /\ m_base_plan[a] = NULL
                             /\ m_base_plan[b] = NULL
                             /\ Merge(id, a, b))
              => /\ ret'.res = Len(m_id) + 1
                 /\ ret'.thrown = "none"
                 /\ m_id'[ret'.res] = id
                 /\ m_base_plan'[ret'.res] = NULL
                 /\ m_layers'[ret'.res] = m_layers[a] \o m_layers[b]]_vars

\* A merge has just built a root from two roots constructed one after the
\* other, with different layers and different mappings.
C26_Witness ==
    /\ ret.op = "merge"
    /\ ret.res # NULL
    /\ m_base_plan[ret.res] = NULL
    /\ \E a \in Plans, b \in Plans :
          /\ a # b /\ a # ret.res /\ b # ret.res
          /\ m_base_plan[a] = NULL /\ m_base_plan[b] = NULL
          /\ m_layers[a] # <<>> /\ m_layers[b] # <<>>
          /\ getFileSystemState(a) # getFileSystemState(b)
          /\ m_layers[ret.res] = m_layers[a] \o m_layers[b]

\* ------------------------------------------------------------------ C27
\* What every plan m that merge(id, a, b) has built satisfies from then
\* on: a and b were constructed before m, the three have the same base,
\* and m's layers begin with layers a had, followed by layers b had.
C27_MergedFrom(m, a, b) ==
    /\ a < m /\ b < m
    /\ m_base_plan[m] = m_base_plan[a]
    /\ m_base_plan[m] = m_base_plan[b]
    /\ \E i \in 0 .. Len(m_layers[a]), j \in 0 .. Len(m_layers[b]) :
          IsPrefix(SubSeq(m_layers[a], 1, i) \o SubSeq(m_layers[b], 1, j),
                   m_layers[m])

\* C27: for a plan m merged from a and b, an applyLayer on a or on b
\* leaves m's layer sequence and mapping as they were, and an applyLayer
\* on m leaves the layer sequences and mappings of a and b as they were.
C27_MergedOwnsCopies ==
    [][\A m \in Plans, a \in Plans, b \in Plans :
          (ret'.op = "applyLayer" /\ C27_MergedFrom(m, a, b))
              => /\ (m_layers'[a] # m_layers[a] \/ m_layers'[b] # m_layers[b])
                       => /\ m_layers'[m] = m_layers[m]
                          /\ getFileSystemStateNext(m) = getFileSystemState(m)
                 /\ m_layers'[m] # m_layers[m]
                       => /\ m_layers'[a] = m_layers[a]
                          /\ m_layers'[b] = m_layers[b]
                          /\ getFileSystemStateNext(a) = getFileSystemState(a)
                          /\ getFileSystemStateNext(b)
                                = getFileSystemState(b)]_vars

\* An applyLayer has just given planA a second layer after a merge of
\* planA and planB that copied its first.
C27_Witness ==
    /\ ret.op = "applyLayer"
    /\ \E m \in Plans, a \in Plans, b \in Plans :
          /\ a # b
          /\ C27_MergedFrom(m, a, b)
          /\ Len(m_layers[a]) = 2
          /\ m_layers[m] = SubSeq(m_layers[a], 1, 1) \o m_layers[b]
          /\ getFileSystemState(m) # getFileSystemState(a)

\* ------------------------------------------------------------------ C28
\* C28: merge(new_id, planA, planA) is accepted: it returns a new plan, on
\* planA's base, whose layers are planA's layers twice in a row and whose
\* mapping is planA's mapping.
C28_SelfMerge ==
    [][\A a \in Plans, id \in NewIds :
          (ret'.op = "merge" /\ Merge(id, a, a))
              => /\ ret'.res = Len(m_id) + 1
                 /\ ret'.thrown = "none"
                 /\ m_base_plan'[ret'.res] = m_base_plan[a]
                 /\ m_layers'[ret'.res] = m_layers[a] \o m_layers[a]
                 /\ getFileSystemStateNext(ret'.res)
                       = getFileSystemState(a)]_vars

\* A merge has just built a plan from one plan taken twice, whose two
\* layers write and then overwrite a path.
C28_Witness ==
    /\ ret.op = "merge"
    /\ ret.res # NULL
    /\ \E a \in Plans :
          /\ a # ret.res
          /\ Len(m_layers[a]) = 2
          /\ m_layers[a][1] # m_layers[a][2]
          /\ m_layers[ret.res] = m_layers[a] \o m_layers[a]
          /\ m_base_plan[ret.res] = m_base_plan[a]
          /\ getFileSystemState(a) # EmptyMap
          /\ getFileSystemState(ret.res) = getFileSystemState(a)

\* ------------------------------------------------------------------ C29
\* C29: when merge(y, planB, planA) returns a plan and a plan m1 with the
\* layers of merge(x, planA, planB) exists on the same base, the two
\* mappings agree on every path that planA and planB do not both touch;
\* they are equal when no path is touched by both.
C29_OrderOnlyOnOverlap ==
    [][\A a \in Plans, b \in Plans, m1 \in Plans, id \in NewIds :
          (/\ ret'.op = "merge"
           /\ m_base_plan[m1] = m_base_plan[a]
           /\ m_layers[m1] = m_layers[a] \o m_layers[b]
           /\ ~BasesDiffer(a, b)
           /\ Merge(id, b, a))
              => LET s1 == getFileSystemState(m1)
                     s2 == getFileSystemStateNext(ret'.res)
                     both == {q \in Paths : /\ Touches(a, q, AllKinds)
                                            /\ Touches(b, q, AllKinds)}
                 IN /\ \A q \in Paths \ both : AgreeOn(s1, s2, q)
                    /\ both = {} => s1 = s2]_vars

\* Two siblings that write different paths have been merged in both
\* orders: the second merge has just returned.
C29_Witness ==
    /\ ret.op = "merge"
    /\ ret.res # NULL
    /\ \E a \in Plans, b \in Plans, m1 \in Plans :
          /\ m_base_plan[a] = m_base_plan[b]
          /\ m_base_plan[m1] = m_base_plan[a]
          /\ m_base_plan[ret.res] = m_base_plan[a]
          /\ m_layers[a] # <<>> /\ m_layers[b] # <<>>
          /\ \A q \in Paths : ~(/\ Touches(a, q, AllKinds)
                                 /\ Touches(b, q, AllKinds))
          /\ getFileSystemState(a) # EmptyMap
          /\ getFileSystemState(b) # EmptyMap
          /\ m_layers[m1] = m_layers[a] \o m_layers[b]
          /\ m_layers[ret.res] = m_layers[b] \o m_layers[a]
          /\ m_layers[m1] # m_layers[ret.res]
          /\ getFileSystemState(m1) = getFileSystemState(ret.res)

====
